---- MODULE Spec2Model ----
(***************************************************************************)
(* Star-range partitioning search of github-star-counts.                   *)
(*                                                                         *)
(* The repository holds three near-identical scripts.  The model carries   *)
(* the script as the variable `variant`:                                   *)
(*   "stars"  src/fetch-repos-stars.js                                     *)
(*   "part0"  src/unnamed/part_000                                         *)
(*   "part1"  src/unnamed/part_001                                         *)
(* One run is main() -> fetchAllRepos() -> upsert.  Every await of the     *)
(* code is one action, taken when the awaited response arrives; the        *)
(* response is the action's parameter.                                     *)
(***************************************************************************)
EXTENDS Integers, Sequences, FiniteSets, TLC

VARIABLES
  variant,              \* which script runs
  pc,                   \* position of the single flow of control
  starCutoff,           \* fetchAllRepos: let starCutoff
  starCountRange,       \* fetchAllRepos: let starCountRange
  starCountParsedRange, \* fetchAllRepos: `${low}..${high}` as [low, high]
  data,                 \* fetchAllRepos: data.total_count (Undefined or <<n>>)
  option,               \* argument of the quota consult in flight (0: none)
  sleepLeft,            \* time left on the pending sleep / busy wait
  nextPageUrl,          \* collector: let nextPageUrl (0 is null)
  pageData,             \* collector: const repoData
  fetchedRepos,         \* fetchAllRepos: const fetchedRepos
  repoData,             \* fetchAllRepos: const repoData
  returned,             \* main: const repoData (what fetchAllRepos returned)
  exitCode,             \* process.exitCode (0: never set)
  sink,                 \* what upsert was called with
  remaining,            \* quota endpoint: resources.search.remaining
  untilReset,           \* quota endpoint: reset - now
  lastHigh,             \* history: high bound of the last accepted range
  covered,              \* history: accepted ranges so far are contiguous
  probed,               \* history: range of the last probe of this iteration
  nProbes,              \* history: probes issued in this outer iteration
  served,               \* history: pages served to the current page walk
  failed,               \* history: kinds of failures seen in this run
  index,                \* search endpoint: the totals it has answered, by range
  consulted             \* history: the quota was read since the last request

vars == <<variant, pc, starCutoff, starCountRange, starCountParsedRange, data,
          option, sleepLeft, nextPageUrl, pageData, fetchedRepos, repoData,
          returned, exitCode, sink, remaining, untilReset, lastHigh, covered,
          probed, nProbes, served, failed, index, consulted>>

quotaVars == <<remaining, untilReset>>

(***************************************************************************)
(* Program constants.                                                      *)
(***************************************************************************)
MAX_RESULTS_PER_SEARCH == 1000

INITIAL_STAR_RANGE_stars == 1000
STAR_RANGE_DECREMENT_stars == 100
STAR_MAX_stars == 6000

INITIAL_STAR_RANGE_part == 3000
STAR_RANGE_DECREMENT_part == 300
STAR_MAX_part0 == 500000
STAR_MAX_part1 == 364000

SOFT_THRESHOLD == 12

Variants == {"stars", "part0", "part1"}

INITIAL_STAR_RANGE(v) ==
  IF v = "stars" THEN INITIAL_STAR_RANGE_stars ELSE INITIAL_STAR_RANGE_part

STAR_RANGE_DECREMENT(v) ==
  IF v = "stars" THEN STAR_RANGE_DECREMENT_stars ELSE STAR_RANGE_DECREMENT_part

STAR_MAX(v) ==
  CASE v = "stars" -> STAR_MAX_stars
    [] v = "part0" -> STAR_MAX_part0
    [] OTHER -> STAR_MAX_part1

(***************************************************************************)
(* Bounds of the model.                                                    *)
(***************************************************************************)
MaxGapUnits == 10   \* the floor lies at most this many decrements below STAR_MAX
MaxProbes == 12     \* probes per outer iteration the model follows
MaxPages == 3       \* longest link chain the endpoint serves
MaxRecords == 1     \* records the endpoint serves to one run
MaxBatch == 3       \* longest batch handed to filterResponseData on its own
QuotaGapUnits == 1  \* the same, in the runs against the counted quota
QuotaLimit == 12    \* resources.search.limit
Window == 1         \* length of a quota window, in ticks

(***************************************************************************)
(* JavaScript values.                                                      *)
(***************************************************************************)
Undefined == <<>>
Num(n) == <<n>>
IsNum(t) == t # Undefined

\* undefined compares false with every number, under every operator
Gt(t, n) == IsNum(t) /\ t[1] > n
Le(t, n) == IsNum(t) /\ t[1] <= n
StrictEq(t, n) == t = Num(n)

Min(a, b) == IF a < b THEN a ELSE b
Max(a, b) == IF a > b THEN a ELSE b

List(s) == [kind |-> "list", items |-> s]
UndefinedValue == [kind |-> "undefined", items |-> <<>>]
Thrown == [kind |-> "thrown", items |-> <<>>]
NotYet == [kind |-> "none", items |-> <<>>]

(***************************************************************************)
(* filterResponseData.                                                     *)
(***************************************************************************)
RawItem(id, archived, disabled, visibility) ==
  [id |-> id,
   full_name |-> <<"full_name", id>>,
   html_url |-> <<"html_url", id>>,
   description |-> <<"description", id>>,
   language |-> <<"language", id>>,
   archived |-> archived,
   disabled |-> disabled,
   visibility |-> visibility,
   forks_count |-> <<"forks_count", id>>,
   stargazers_count |-> 10 * id,
   watchers_count |-> <<"watchers_count", id>>,
   open_issues_count |-> <<"open_issues_count", id>>,
   topics |-> <<"topics", id>>,
   contributors_url |-> <<"contributors_url", id>>]

\* a filter that forgets the disabled flag
KeepIgnoringDisabled(item) ==
  ~item.archived /\ item.visibility = "public"

Keep(item) ==
  ~item.archived /\ ~item.disabled /\ item.visibility = "public"

Project(item) ==
  [github_id |-> item.id,
   full_name |-> item.full_name,
   html_url |-> item.html_url,
   description |-> item.description,
   language |-> item.language,
   forks |-> item.forks_count,
   stars |-> item.stargazers_count,
   watchers |-> item.watchers_count,
   open_issues |-> item.open_issues_count,
   topics |-> item.topics,
   contributors_url |-> item.contributors_url]

filterResponseData(items) ==
  LET filteredRepos == SelectSeq(items, Keep)
  IN  [i \in 1..Len(filteredRepos) |-> Project(filteredRepos[i])]

(***************************************************************************)
(* The Link header of a page response: a sequence of entries               *)
(* <url>; rel="name".  An entry with rel "malformed" has no `;` part:      *)
(* split(';')[1] is undefined and .trim() throws.                          *)
(***************************************************************************)
RECURSIVE ScanLinks(_, _)
ScanLinks(links, i) ==
  IF i > Len(links) THEN [threw |-> FALSE, url |-> 0]
  ELSE IF links[i].rel = "malformed" THEN [threw |-> TRUE, url |-> 0]
  ELSE IF links[i].rel = "next" THEN [threw |-> FALSE, url |-> links[i].url]
  ELSE ScanLinks(links, i + 1)

\* a parser that reads only the first entry of the header
ParseLinkFirstEntry(linkHeader) ==
  IF linkHeader = <<>> THEN [threw |-> FALSE, url |-> 0]
  ELSE IF linkHeader[1].rel = "malformed" THEN [threw |-> TRUE, url |-> 0]
  ELSE IF linkHeader[1].rel = "next"
    THEN [threw |-> FALSE, url |-> linkHeader[1].url]
  ELSE [threw |-> FALSE, url |-> 0]

\* nextPageUrl after one response: 0 (null) when no entry is rel="next"
ParseLink(linkHeader) ==
  IF linkHeader = <<>> THEN [threw |-> FALSE, url |-> 0]
  ELSE ScanLinks(linkHeader, 1)

(***************************************************************************)
(* The shrink loop's arithmetic.                                           *)
(***************************************************************************)
RangeHigh(v, cutoff, step) ==
  IF v = "stars"
    THEN Min(STAR_MAX(v), cutoff + step - 1)
    ELSE Max(Min(STAR_MAX(v), cutoff + step - 1), cutoff)

ParsedRange(v, cutoff, step) ==
  [low |-> cutoff, high |-> RangeHigh(v, cutoff, step)]

\* an accept test that shrinks on a total equal to the cap
AcceptsBelowCap(v, t) ==
  IsNum(t) /\ t[1] < MAX_RESULTS_PER_SEARCH

\* if (data.total_count === 0 || data.total_count <= MAX_RESULTS_PER_SEARCH) break
Accepts(v, t) ==
  IF v = "stars"
    THEN Le(t, MAX_RESULTS_PER_SEARCH)
    ELSE StrictEq(t, 0) \/ Le(t, MAX_RESULTS_PER_SEARCH)

\* a shrink loop without the guard
NoTerminationGuard(v, cutoff, step) == FALSE

\* if (starCutoff === Math.max(Math.min(STAR_MAX, ...), starCutoff)) break
TerminationGuard(v, cutoff, step) ==
  v # "stars" /\ cutoff = Max(Min(STAR_MAX(v), cutoff + step - 1), cutoff)

\* the loop condition: while (...) of stars and part0, do ... while (...) of part1
LoopAgain(v, t) ==
  IF v = "part1"
    THEN Gt(t, MAX_RESULTS_PER_SEARCH)
    ELSE Gt(t, MAX_RESULTS_PER_SEARCH) \/ t = Undefined

\* a governor without the soft check: it waits only on an empty quota
NeedsWaitOnEmpty(v, opt, r) ==
  v # "stars" /\ r = 0

\* waitForRateLimitReset's test (part1), the inline test of part0
NeedsWait(v, opt, r) ==
  CASE v = "stars" -> FALSE
    [] v = "part0" -> r < SOFT_THRESHOLD
    [] OTHER -> (r < SOFT_THRESHOLD /\ opt = 1) \/ (r = 0 /\ opt = 2)

\* repoData.sort((a, b) => b.stars - a.stars): stable, descending
RECURSIVE InsertByStars(_, _)
InsertByStars(sorted, r) ==
  IF sorted = <<>> THEN <<r>>
  ELSE IF Head(sorted).stars >= r.stars
    THEN <<Head(sorted)>> \o InsertByStars(Tail(sorted), r)
    ELSE <<r>> \o sorted

RECURSIVE SortByStars(_)
SortByStars(s) ==
  IF s = <<>> THEN <<>>
  ELSE InsertByStars(SortByStars(SubSeq(s, 1, Len(s) - 1)), s[Len(s)])

(***************************************************************************)
(* Inputs.                                                                 *)
(***************************************************************************)
LowestCursor(v) == STAR_MAX(v) - MaxGapUnits * STAR_RANGE_DECREMENT(v)

\* starCountStart: on the decrement lattice below the ceiling, and one above it
Floors(v, gap) ==
  {f \in {STAR_MAX(v) - k * STAR_RANGE_DECREMENT(v) + e :
            k \in 0..gap, e \in {0, 1}} : f <= STAR_MAX(v)}

Totals ==
  {Undefined, Num(0), Num(MAX_RESULTS_PER_SEARCH), Num(MAX_RESULTS_PER_SEARCH + 1)}

ProbeResponses ==
  {[ok |-> FALSE, total_count |-> Undefined]}
    \cup {[ok |-> TRUE, total_count |-> t] : t \in Totals}

QuotaFailure == [ok |-> FALSE, remaining |-> 0, untilReset |-> 0]

QuotaReading(r, u) == [ok |-> TRUE, remaining |-> r, untilReset |-> u]

\* any state of the quota an unconstrained environment may report
QuotaResponses ==
  {QuotaFailure}
    \cup {QuotaReading(r, u) :
            r \in {0, SOFT_THRESHOLD - 1, SOFT_THRESHOLD}, u \in 1..Window}

GoodA == RawItem(1, FALSE, FALSE, "public")
GoodB == RawItem(2, FALSE, FALSE, "public")
Archived == RawItem(3, TRUE, FALSE, "public")
Disabled == RawItem(4, FALSE, TRUE, "public")
Private == RawItem(5, FALSE, FALSE, "private")
Hidden == RawItem(6, TRUE, TRUE, "internal")

ItemUniverse == {GoodA, GoodB, Archived, Disabled, Private, Hidden}

\* Link headers the endpoint sends with the page at url u
Headers(u, more) ==
  {<<>>, <<[url |-> u - 1, rel |-> "prev"], [url |-> 1, rel |-> "first"]>>}
    \cup (IF more
            THEN {<<[url |-> u + 1, rel |-> "next"], [url |-> MaxPages, rel |-> "last"]>>,
                  <<[url |-> u - 1, rel |-> "prev"], [url |-> u + 1, rel |-> "next"]>>}
            ELSE {})

PageFailure == [ok |-> FALSE, items |-> <<>>, link |-> <<>>]

PageResponses(batches, u, more) ==
  {PageFailure}
    \cup {[ok |-> TRUE, items |-> b, link |-> h] : b \in batches, h \in Headers(u, more)}
    \cup {[ok |-> TRUE, items |-> <<>>, link |-> <<[url |-> 0, rel |-> "malformed"]>>]}

RunBatches == {<<>>, <<GoodA>>}

UpsertOutcomes == {"data", "error", "throw"}

(***************************************************************************)
(* The flow of control.  pc:                                               *)
(*   "rate"      awaiting fetchRateLimit()                                 *)
(*   "wait"      sleeping (part1) or busy waiting (part0) until the reset  *)
(*   "iter"      top of the while (true) body                             *)
(*   "probe"     awaiting the probe of starCountParsedRange                *)
(*   "accepted"  the shrink loop has exited                                *)
(*   "page"      awaiting the page at nextPageUrl                          *)
(*   "walked"    fetchRepositoriesWithPagination has returned or thrown    *)
(*   "advance"   at starCutoff += starCountRange                           *)
(*   "upsert"    awaiting the upsert                                       *)
(*   "exit"      main has ended                                            *)
(***************************************************************************)

\* a catch that logs and forgets process.exitCode = 1
FetchAllCatchSilent ==
  /\ exitCode' = exitCode
  /\ IF variant = "stars"
       THEN pc' = "exit" /\ returned' = returned
       ELSE pc' = "upsert" /\ returned' = UndefinedValue

\* catch (error) of fetchAllRepos.  In stars the handler reads err, which is
\* not defined: the ReferenceError leaves fetchAllRepos and main's outer
\* catch sets the exit code, skipping the upsert.
FetchAllCatch ==
  /\ exitCode' = 1
  /\ IF variant = "stars"
       THEN pc' = "exit" /\ returned' = returned
       ELSE pc' = "upsert" /\ returned' = UndefinedValue

\* where the flow goes on after a consult: 0 the loop (stars), 1 the first
\* probe, 2 the call of fetchRepositoriesWithPagination
Resume(opt) ==
  IF opt = 2
    THEN pc' = "page" /\ nextPageUrl' = 1 /\ pageData' = <<>>
    ELSE /\ pc' = (IF opt = 0 THEN "iter" ELSE "probe")
         /\ UNCHANGED <<nextPageUrl, pageData>>

IterStart ==
  /\ pc = "iter"
  /\ starCutoff >= LowestCursor(variant)
  /\ starCountRange' = INITIAL_STAR_RANGE(variant)
  /\ starCountParsedRange' =
       ParsedRange(variant, starCutoff, INITIAL_STAR_RANGE(variant))
  /\ data' = Undefined
  /\ nProbes' = 0
  /\ probed' = {}
  /\ IF variant = "stars"
       THEN pc' = "probe" /\ option' = 0
       ELSE pc' = "rate" /\ option' = 1
  /\ UNCHANGED <<variant, starCutoff, sleepLeft, nextPageUrl, pageData,
                 fetchedRepos, repoData, returned, exitCode, sink, lastHigh,
                 covered, served, failed>>

FetchRateLimit(resp) ==
  /\ pc = "rate"
  /\ IF ~resp.ok
       THEN /\ failed' = failed \cup {"quota"}
            /\ FetchAllCatch
            /\ UNCHANGED <<sleepLeft, nextPageUrl, pageData>>
       ELSE /\ UNCHANGED <<failed, exitCode, returned>>
            /\ IF NeedsWait(variant, option, resp.remaining)
                 THEN /\ pc' = "wait"
                      /\ sleepLeft' = resp.untilReset
                      /\ UNCHANGED <<nextPageUrl, pageData>>
                 ELSE Resume(option) /\ sleepLeft' = sleepLeft
  /\ UNCHANGED <<variant, starCutoff, starCountRange, starCountParsedRange,
                 data, option, fetchedRepos, repoData, sink, lastHigh, covered,
                 probed, nProbes, served>>

\* a timer that may fire before its delay is over
WakeEarly ==
  /\ pc = "wait"
  /\ Resume(option)
  /\ UNCHANGED <<variant, starCutoff, starCountRange, starCountParsedRange,
                 data, option, sleepLeft, fetchedRepos, repoData, returned,
                 exitCode, sink, lastHigh, covered, probed, nProbes, served,
                 failed>>

\* the timer of sleep() has fired (part1), the busy wait has ended (part0)
Wake ==
  /\ pc = "wait"
  /\ sleepLeft = 0
  /\ Resume(option)
  /\ UNCHANGED <<variant, starCutoff, starCountRange, starCountParsedRange,
                 data, option, sleepLeft, fetchedRepos, repoData, returned,
                 exitCode, sink, lastHigh, covered, probed, nProbes, served,
                 failed>>

Probe(resp) ==
  /\ pc = "probe"
  /\ nProbes < MaxProbes
  /\ nProbes' = nProbes + 1
  /\ probed' = {starCountParsedRange}
  /\ IF ~resp.ok
       THEN /\ failed' = failed \cup {"probe"}
            /\ FetchAllCatch
            /\ UNCHANGED <<data, starCountRange, starCountParsedRange>>
       ELSE /\ data' = resp.total_count
            /\ failed' = IF resp.total_count = Undefined
                           THEN failed \cup {"no total"} ELSE failed
            /\ UNCHANGED <<exitCode, returned>>
            /\ IF Accepts(variant, resp.total_count)
                 THEN /\ pc' = "accepted"
                      /\ UNCHANGED <<starCountRange, starCountParsedRange>>
                 ELSE LET step == starCountRange - STAR_RANGE_DECREMENT(variant)
                      IN  /\ starCountRange' = step
                          /\ starCountParsedRange' =
                               ParsedRange(variant, starCutoff, step)
                          /\ pc' = IF TerminationGuard(variant, starCutoff, step)
                                     THEN "accepted"
                                   ELSE IF LoopAgain(variant, resp.total_count)
                                     THEN "probe"
                                   ELSE "accepted"
  /\ UNCHANGED <<variant, starCutoff, option, sleepLeft, nextPageUrl, pageData,
                 fetchedRepos, repoData, sink, lastHigh, covered, served>>

Accepted ==
  /\ pc = "accepted"
  /\ covered' = (covered /\ starCountParsedRange.low = lastHigh + 1)
  /\ lastHigh' = starCountParsedRange.high
  /\ CASE variant = "stars" -> Resume(2) /\ option' = option
       [] variant = "part0" ->
            /\ option' = option
            /\ IF data # Num(0)
                 THEN Resume(2)
                 ELSE pc' = "advance" /\ UNCHANGED <<nextPageUrl, pageData>>
       [] OTHER ->
            pc' = "rate" /\ option' = 2 /\ UNCHANGED <<nextPageUrl, pageData>>
  /\ UNCHANGED <<variant, starCutoff, starCountRange, starCountParsedRange,
                 data, sleepLeft, fetchedRepos, repoData, returned, exitCode,
                 sink, probed, nProbes, served, failed>>

PageFetch(resp) ==
  /\ pc = "page"
  /\ LET parsed == ParseLink(resp.link)
     IN  IF ~resp.ok \/ parsed.threw
           THEN /\ failed' = failed \cup {"page"}
                /\ pc' = "walked"
                /\ IF variant = "stars"
                     THEN fetchedRepos' = Thrown /\ exitCode' = exitCode
                     ELSE fetchedRepos' = UndefinedValue /\ exitCode' = 1
                /\ UNCHANGED <<nextPageUrl, pageData>>
           ELSE /\ pageData' = pageData \o filterResponseData(resp.items)
                /\ nextPageUrl' = parsed.url
                /\ UNCHANGED <<failed, exitCode>>
                /\ IF parsed.url = 0
                     THEN pc' = "walked" /\ fetchedRepos' = List(pageData')
                     ELSE pc' = "page" /\ fetchedRepos' = fetchedRepos
  /\ UNCHANGED <<variant, starCutoff, starCountRange, starCountParsedRange,
                 data, option, sleepLeft, repoData, returned, sink, lastHigh,
                 covered, probed, nProbes>>

\* repoData.push(...fetchedRepos): spreading undefined throws a TypeError
AfterWalk ==
  /\ pc = "walked"
  /\ served' = <<>>
  /\ IF fetchedRepos.kind = "list"
       THEN /\ repoData' = repoData \o fetchedRepos.items
            /\ pc' = "advance"
            /\ UNCHANGED <<exitCode, returned>>
       ELSE FetchAllCatch /\ repoData' = repoData
  /\ UNCHANGED <<variant, starCutoff, starCountRange, starCountParsedRange,
                 data, option, sleepLeft, nextPageUrl, pageData, fetchedRepos,
                 sink, lastHigh, covered, probed, nProbes, failed>>

Advance ==
  /\ pc = "advance"
  /\ starCutoff' = starCutoff + starCountRange
  /\ IF starCutoff' > STAR_MAX(variant)
       THEN /\ pc' = "upsert"
            /\ returned' = List(IF variant = "part1"
                                  THEN SortByStars(repoData) ELSE repoData)
       ELSE pc' = "iter" /\ returned' = returned
  /\ UNCHANGED <<variant, starCountRange, starCountParsedRange, data, option,
                 sleepLeft, nextPageUrl, pageData, fetchedRepos, repoData,
                 exitCode, sink, lastHigh, covered, probed, nProbes, served,
                 failed>>

\* a main that hands whatever fetchAllRepos had accumulated to the upsert
UpsertAccumulated(outcome) ==
  /\ pc = "upsert"
  /\ sink' = List(repoData)
  /\ pc' = "exit"
  /\ IF outcome = "data"
       THEN UNCHANGED <<exitCode, failed>>
       ELSE exitCode' = 1 /\ failed' = failed \cup {"upsert"}
  /\ UNCHANGED <<variant, starCutoff, starCountRange, starCountParsedRange,
                 data, option, sleepLeft, nextPageUrl, pageData, fetchedRepos,
                 repoData, returned, lastHigh, covered, probed, nProbes,
                 served>>

\* main's inner try: the client resolves to {data: [...]} or {data: null,
\* error}, or rejects; response.data.length throws on null
Upsert(outcome) ==
  /\ pc = "upsert"
  /\ sink' = returned
  /\ pc' = "exit"
  /\ IF outcome = "data"
       THEN UNCHANGED <<exitCode, failed>>
       ELSE exitCode' = 1 /\ failed' = failed \cup {"upsert"}
  /\ UNCHANGED <<variant, starCutoff, starCountRange, starCountParsedRange,
                 data, option, sleepLeft, nextPageUrl, pageData, fetchedRepos,
                 repoData, returned, lastHigh, covered, probed, nProbes,
                 served>>

\* time passes for a flow that waits
Elapse ==
  /\ pc = "wait"
  /\ sleepLeft > 0
  /\ sleepLeft' = sleepLeft - 1
  /\ UNCHANGED <<variant, pc, starCutoff, starCountRange, starCountParsedRange,
                 data, option, nextPageUrl, pageData, fetchedRepos, repoData,
                 returned, exitCode, sink, lastHigh, covered, probed, nProbes,
                 served, failed>>

(***************************************************************************)
(* Spec: one run of main() of any of the three scripts, from any floor,    *)
(* against an endpoint whose answers are unconstrained.                    *)
(***************************************************************************)
InitRun(vs, gap) ==
  /\ variant \in vs
  /\ pc = (IF variant = "stars" THEN "rate" ELSE "iter")
  /\ starCutoff \in Floors(variant, gap)
  /\ starCountRange = INITIAL_STAR_RANGE(variant)
  /\ starCountParsedRange =
       ParsedRange(variant, starCutoff, INITIAL_STAR_RANGE(variant))
  /\ data = Undefined
  /\ option = 0
  /\ sleepLeft = 0
  /\ nextPageUrl = 0
  /\ pageData = <<>>
  /\ fetchedRepos = NotYet
  /\ repoData = <<>>
  /\ returned = NotYet
  /\ exitCode = 0
  /\ sink = NotYet
  /\ lastHigh = starCutoff - 1
  /\ covered = TRUE
  /\ probed = {}
  /\ nProbes = 0
  /\ served = <<>>
  /\ failed = {}
  /\ index = <<>>
  /\ consulted = FALSE

Init ==
  /\ InitRun(Variants, MaxGapUnits)
  /\ remaining = QuotaLimit
  /\ untilReset = Window

\* the endpoint serves a finite chain and a bounded number of records
RunPages ==
  {resp \in PageResponses(RunBatches, nextPageUrl, nextPageUrl < MaxPages) :
     Len(repoData) + Len(pageData) + Len(filterResponseData(resp.items))
       <= MaxRecords}

\* a consult that read the quota, and a search request, which uses the
\* reading up
Consulted(resp) == consulted' = resp.ok /\ index' = index

Requested == consulted' = FALSE /\ index' = index

Idle == UNCHANGED <<index, consulted>>

Next ==
  \/ IterStart /\ Idle /\ UNCHANGED quotaVars
  \/ \E resp \in QuotaResponses :
       FetchRateLimit(resp) /\ Consulted(resp) /\ UNCHANGED quotaVars
  \/ Elapse /\ Idle /\ UNCHANGED quotaVars
  \/ Wake /\ Idle /\ UNCHANGED quotaVars
  \/ \E resp \in ProbeResponses :
       Probe(resp) /\ Requested /\ UNCHANGED quotaVars
  \/ Accepted /\ Idle /\ UNCHANGED quotaVars
  \/ \E resp \in RunPages :
       PageFetch(resp) /\ served' = served /\ Requested /\ UNCHANGED quotaVars
  \/ AfterWalk /\ Idle /\ UNCHANGED quotaVars
  \/ Advance /\ Idle /\ UNCHANGED quotaVars
  \/ \E outcome \in UpsertOutcomes :
       Upsert(outcome) /\ Idle /\ UNCHANGED quotaVars

Spec == Init /\ [][Next]_vars

(***************************************************************************)
(* Claims checked under Spec.                                              *)
(***************************************************************************)

\* C1  Partition coverage: in every run of fetchAllRepos that completes, the
\* accepted sub-ranges start at the floor, each starts one above the high
\* bound of the one before, and the last ends at STAR_MAX.
PartitionCoverage ==
  returned.kind = "list" => covered /\ lastHigh = STAR_MAX(variant)

\* C3  Cap respected: every sub-range the shrink loop accepts either was
\* probed as exactly that range with total_count <= 1000, or has its high
\* bound at STAR_MAX.
CapRespected ==
  pc = "accepted" =>
    \/ probed = {starCountParsedRange} /\ Le(data, MAX_RESULTS_PER_SEARCH)
    \/ starCountParsedRange.high = STAR_MAX(variant)

\* C4  Shrink-loop termination: one outer iteration issues a bounded number
\* of probes, at most one per positive width of the shrink sequence
\* INITIAL_STAR_RANGE, INITIAL_STAR_RANGE - STAR_RANGE_DECREMENT, ...
ShrinkLoopBounded ==
  nProbes <= INITIAL_STAR_RANGE(variant) \div STAR_RANGE_DECREMENT(variant)

\* C5  An undefined probe total is never treated as success: the shrink loop
\* exits after a probe without total_count only through the termination
\* guard (the recomputed high bound equals starCutoff).
UndefinedNeverAccepted ==
  (pc = "accepted" /\ data = Undefined) =>
    starCutoff = starCountParsedRange.high

(***************************************************************************)
(* FairSpec: the runs of part0 and part1 in which every awaited response   *)
(* arrives, so the single flow of control always takes its next step.      *)
(***************************************************************************)
InitFair ==
  /\ InitRun({"part0", "part1"}, MaxGapUnits)
  /\ remaining = QuotaLimit
  /\ untilReset = Window

FairSpec == InitFair /\ [][Next]_vars /\ WF_vars(Next)

\* C2  Run termination: whatever the probes answer, provided every request
\* returns and every link chain is finite, the run ends.
RunTerminates == <>(pc = "exit")

\* C9 as stated  Exit status: non-zero at the end of main if any quota
\* fetch, probe, page fetch or upsert failed (threw, had an unparseable
\* body, or returned an error result), zero if all succeeded and the cursor
\* passed the ceiling.
ExitStatus ==
  pc = "exit" =>
    /\ failed # {} => exitCode # 0
    /\ (failed = {} /\ starCutoff > STAR_MAX(variant)) => exitCode = 0

\* the failures other than a probe whose parsed body has no total_count
Thrown_(fs) == fs \ {"no total"}

\* C9 as amended  Exit status: non-zero at the end of main if any quota
\* fetch, probe, page fetch or upsert threw, had an unparseable body, or (a
\* page fetch, the upsert) returned an error result; zero if none did and the
\* cursor passed the ceiling.  A probe answered without total_count does not
\* set the exit code.
ExitStatusOfThrows ==
  pc = "exit" =>
    /\ Thrown_(failed) # {} => exitCode # 0
    /\ (Thrown_(failed) = {} /\ starCutoff > STAR_MAX(variant)) => exitCode = 0

ExitAfterFailure ==
  /\ pc = "exit"
  /\ failed = {"no total", "page"}
  /\ exitCode = 1

\* C10  Failure of one sub-range does not abort the run (part0, part1): when
\* a page fetch has failed the exit code is set, and fetchAllRepos still ends
\* only with the cursor past the ceiling, returning the collected records.
WalkFailureDoesNotAbort ==
  (variant # "stars" /\ "page" \in failed /\ pc \in {"upsert", "exit"}) =>
    /\ exitCode = 1
    /\ starCutoff > STAR_MAX(variant)
    /\ returned.kind = "list"

\* C11  Positive step: starCountRange is a positive integer whenever the range
\* awaiting its probe was computed from it and whenever it is about to be
\* added to starCutoff, so every outer iteration advances the cursor.
PositiveStep ==
  pc \in {"probe", "advance"} => starCountRange > 0

\* C12  Termination guard at the ceiling (part0, part1): when the decrement
\* of the step leaves the range unchanged with its high bound pinned at
\* STAR_MAX, the shrink loop stops and accepts the range instead of probing
\* the same range again.
GuardAtCeiling ==
  [][(/\ variant # "stars"
      /\ pc = "probe"
      /\ starCountRange' # starCountRange
      /\ starCountParsedRange' = starCountParsedRange
      /\ starCountParsedRange.high = STAR_MAX(variant))
       => pc' = "accepted"]_vars

\* C14  Well-formed ranges: every range sent to the search endpoint, as a
\* probe or as the first query of a page walk, has
\* starCutoff = low <= high <= STAR_MAX.
WellFormedRanges ==
  (pc = "probe" \/ (pc = "page" /\ nextPageUrl = 1)) =>
    /\ starCountParsedRange.low = starCutoff
    /\ starCountParsedRange.low <= starCountParsedRange.high
    /\ starCountParsedRange.high <= STAR_MAX(variant)

\* C15  Cursor monotonicity: starCutoff never decreases in the course of a
\* run, whatever the probes answer.
CursorMonotone ==
  [][starCutoff' >= starCutoff]_vars

\* C16  Governor ordering: the first probe of every outer iteration, and the
\* first page fetch of every page walk, is issued with a reading of the
\* quota taken since the last search request before it.
GovernorOrdering ==
  /\ (pc = "probe" /\ nProbes = 0) => consulted
  /\ (pc = "page" /\ nextPageUrl = 1) => consulted

CollectBatches ==
  {<<>>, <<GoodA>>, <<Archived, GoodB>>, <<GoodB, Disabled, GoodA>>}

InitCall ==
  /\ variant \in Variants
  /\ pc = "page"
  /\ starCutoff = STAR_MAX(variant)
  /\ starCountRange = INITIAL_STAR_RANGE(variant)
  /\ starCountParsedRange =
       ParsedRange(variant, starCutoff, INITIAL_STAR_RANGE(variant))
  /\ data = Undefined
  /\ option = 0
  /\ sleepLeft = 0
  /\ nextPageUrl = 1
  /\ pageData = <<>>
  /\ fetchedRepos = NotYet
  /\ repoData = <<>>
  /\ returned = NotYet
  /\ exitCode = 0
  /\ sink = NotYet
  /\ remaining = QuotaLimit
  /\ untilReset = Window
  /\ lastHigh = starCutoff - 1
  /\ covered = TRUE
  /\ probed = {}
  /\ nProbes = 0
  /\ served = <<>>
  /\ failed = {}
  /\ index = <<>>
  /\ consulted = FALSE

ServePage(resp) ==
  /\ PageFetch(resp)
  /\ served' = Append(served, [url |-> nextPageUrl, ok |-> resp.ok,
                               items |-> resp.items, link |-> resp.link])
  /\ Requested
  /\ UNCHANGED quotaVars

NextCollect ==
  \E resp \in PageResponses(CollectBatches, nextPageUrl, nextPageUrl < MaxPages) :
    ServePage(resp)

SpecCollect == InitCall /\ [][NextCollect]_vars

HasNext(link) == \E i \in 1..Len(link) : link[i].rel = "next"

FirstNext(link) ==
  link[CHOOSE i \in 1..Len(link) :
         /\ link[i].rel = "next"
         /\ \A j \in 1..(i - 1) : link[j].rel # "next"].url

RECURSIVE FilteredItemsOf(_)
FilteredItemsOf(pages) ==
  IF pages = <<>> THEN <<>>
  ELSE FilteredItemsOf(SubSeq(pages, 1, Len(pages) - 1))
         \o filterResponseData(pages[Len(pages)].items)

\* C7  Pagination: when the walk returns its list after N page fetches, the
\* fetches went to the initial url and then to each response's rel="next"
\* url in turn, each of the first N-1 responses carried a rel="next" entry
\* and the N-th none, and the list is the concatenation, in page order, of
\* the filtered items of the N pages.
PaginationWalk ==
  (pc = "walked" /\ fetchedRepos.kind = "list") =>
    LET n == Len(served)
    IN  /\ n >= 1
        /\ served[1].url = 1
        /\ \A k \in 1..(n - 1) :
             /\ HasNext(served[k].link)
             /\ served[k + 1].url = FirstNext(served[k].link)
        /\ ~HasNext(served[n].link)
        /\ fetchedRepos.items = FilteredItemsOf(served)

ThreePageWalk ==
  /\ pc = "walked"
  /\ fetchedRepos.kind = "list"
  /\ Len(served) = 3
  /\ served[1].link[1].rel = "prev"
  /\ Len(fetchedRepos.items) = 3

(***************************************************************************)
(* SpecFilter: filterResponseData applied to one batch of raw items, as    *)
(* the only page of a walk.                                                *)
(***************************************************************************)
RECURSIVE BatchesUpTo(_)
BatchesUpTo(n) ==
  IF n = 0 THEN {<<>>}
  ELSE LET shorter == BatchesUpTo(n - 1)
       IN  shorter \cup {Append(b, it) : b \in {x \in shorter : Len(x) = n - 1},
                                         it \in ItemUniverse}

NextFilter ==
  \E b \in BatchesUpTo(MaxBatch) :
    ServePage([ok |-> TRUE, items |-> b, link |-> <<>>])

SpecFilter == InitCall /\ [][NextFilter]_vars

Public(item) ==
  item.archived = FALSE /\ item.disabled = FALSE /\ item.visibility = "public"

RecordOf(item, r) ==
  /\ DOMAIN r = {"github_id", "full_name", "html_url", "description",
                 "language", "forks", "stars", "watchers", "open_issues",
                 "topics", "contributors_url"}
  /\ r.github_id = item.id
  /\ r.full_name = item.full_name
  /\ r.html_url = item.html_url
  /\ r.description = item.description
  /\ r.language = item.language
  /\ r.forks = item.forks_count
  /\ r.stars = item.stargazers_count
  /\ r.watchers = item.watchers_count
  /\ r.open_issues = item.open_issues_count
  /\ r.topics = item.topics
  /\ r.contributors_url = item.contributors_url

\* C8  Filter correctness: the records returned for a batch are, in input
\* order, one per item that is not archived, not disabled and public, none
\* for any other item, each the fixed projection of its item.
FilterCorrect ==
  (pc = "walked" /\ fetchedRepos.kind = "list") =>
    LET items == served[1].items
        out == fetchedRepos.items
        kept == {i \in 1..Len(items) : Public(items[i])}
    IN  /\ Len(out) = Cardinality(kept)
        /\ \A k \in 1..Len(out) :
             \E i \in kept :
               /\ Cardinality({j \in kept : j < i}) = k - 1
               /\ RecordOf(items[i], out[k])

MixedBatchFiltered ==
  /\ pc = "walked"
  /\ fetchedRepos.kind = "list"
  /\ served[1].items = <<GoodB, Disabled, GoodA>>
  /\ Len(fetchedRepos.items) = 2

(***************************************************************************)
(* SpecQuota: part1 against a quota that is a counter: every search        *)
(* request (probe or page fetch) takes one unit, no other consumer uses    *)
(* it, and it is refilled to QuotaLimit when the window resets.            *)
(***************************************************************************)
InitQuota ==
  /\ InitRun({"part1"}, QuotaGapUnits)
  /\ remaining \in 0..QuotaLimit
  /\ untilReset \in 1..Window

Spend ==
  /\ remaining' = Max(0, remaining - 1)
  /\ untilReset' = untilReset

Tick ==
  /\ pc # "exit"
  /\ IF untilReset = 1
       THEN remaining' = QuotaLimit /\ untilReset' = Window
       ELSE remaining' = remaining /\ untilReset' = untilReset - 1
  /\ sleepLeft' = Max(0, sleepLeft - 1)
  /\ UNCHANGED <<variant, pc, starCutoff, starCountRange, starCountParsedRange,
                 data, option, nextPageUrl, pageData, fetchedRepos, repoData,
                 returned, exitCode, sink, lastHigh, covered, probed, nProbes,
                 served, failed, index, consulted>>

NextQuota ==
  \/ IterStart /\ Idle /\ UNCHANGED quotaVars
  \/ \E resp \in {QuotaFailure, QuotaReading(remaining, untilReset)} :
       FetchRateLimit(resp) /\ Consulted(resp) /\ UNCHANGED quotaVars
  \/ Tick
  \/ Wake /\ Idle /\ UNCHANGED quotaVars
  \/ \E resp \in ProbeResponses : Probe(resp) /\ Requested /\ Spend
  \/ Accepted /\ Idle /\ UNCHANGED quotaVars
  \/ \E resp \in RunPages :
       PageFetch(resp) /\ served' = served /\ Requested /\ Spend
  \/ AfterWalk /\ Idle /\ UNCHANGED quotaVars
  \/ Advance /\ Idle /\ UNCHANGED quotaVars
  \/ \E outcome \in UpsertOutcomes :
       Upsert(outcome) /\ Idle /\ UNCHANGED quotaVars

SpecQuota == InitQuota /\ [][NextQuota]_vars

\* C6 as stated  Quota never exhausted by this flow: no probe and no page
\* fetch is issued when the remaining quota is 0.
QuotaNeverExhausted ==
  pc \in {"probe", "page"} => remaining > 0

\* C6 as amended  No probe, and no first page fetch of a page walk, is issued
\* when the remaining quota is 0 (quota limit at least SOFT_THRESHOLD).
QuotaCoversProbesAndFirstPage ==
  /\ pc = "probe" => remaining > 0
  /\ (pc = "page" /\ nextPageUrl = 1) => remaining > 0

WalkStartsAfterFullBurst ==
  /\ pc = "page"
  /\ nextPageUrl = 1
  /\ nProbes = 10
  /\ remaining = 2

(***************************************************************************)
(* SpecBurst: part0 and part1 against the counted quota, this flow its     *)
(* only consumer.                                                          *)
(***************************************************************************)
\* the quota a run starts with: empty, just below the soft threshold, full
InitBurst ==
  /\ InitRun({"part0", "part1"}, QuotaGapUnits)
  /\ remaining \in {0, SOFT_THRESHOLD - 1, QuotaLimit}
  /\ untilReset \in 1..Window

SpecBurst == InitBurst /\ [][NextQuota]_vars

\* C19  Probe burst fits the soft threshold (part0, part1): an outer
\* iteration issues at most 10 probes, and the burst that follows the soft
\* check leaves at least 2 units of quota: after n probes at least
\* 12 - n remain.
BurstFitsSoftThreshold ==
  /\ nProbes <= 10
  /\ pc \in {"probe", "accepted"} => remaining >= SOFT_THRESHOLD - nProbes
  /\ pc = "accepted" => remaining >= 2

FullBurstLeavesTwo ==
  /\ pc = "accepted"
  /\ variant = "part0"
  /\ nProbes = 10
  /\ remaining = 2

(***************************************************************************)
(* SpecShared: the same, with other consumers of the shared quota.         *)
(***************************************************************************)
\* another consumer uses up what is left of the quota
Drain ==
  /\ pc # "exit"
  /\ remaining > 0
  /\ remaining' = 0
  /\ untilReset' = untilReset
  /\ UNCHANGED <<variant, pc, starCutoff, starCountRange, starCountParsedRange,
                 data, option, sleepLeft, nextPageUrl, pageData, fetchedRepos,
                 repoData, returned, exitCode, sink, lastHigh, covered, probed,
                 nProbes, served, failed, index, consulted>>

NextShared ==
  \/ NextQuota
  \/ Drain

SpecShared == InitBurst /\ [][NextShared]_vars

\* the consult in flight finds the quota below its threshold: remaining < 12
\* for the soft check, remaining = 0 for the hard check
BelowThreshold ==
  IF option = 2 THEN remaining = 0 ELSE remaining < 12

IndexTotals == Totals \ {Undefined}

\* the endpoint answers a range it has answered before as it did then
ProbeIndexed(resp) ==
  /\ resp.ok
  /\ resp.total_count \in IndexTotals
  /\ IF starCountParsedRange \in DOMAIN index
       THEN resp.total_count = index[starCountParsedRange] /\ index' = index
       ELSE index' = index @@ (starCountParsedRange :> resp.total_count)
  /\ Probe(resp)
  /\ consulted' = FALSE

\* once the cursor has moved, the ranges answered so far are not asked again
AdvanceIndexed ==
  /\ Advance
  /\ index' = IF starCutoff' = starCutoff THEN index ELSE <<>>
  /\ consulted' = consulted

NextIndex ==
  \/ IterStart /\ Idle /\ UNCHANGED quotaVars
  \/ \E resp \in QuotaResponses :
       FetchRateLimit(resp) /\ Consulted(resp) /\ UNCHANGED quotaVars
  \/ Elapse /\ Idle /\ UNCHANGED quotaVars
  \/ Wake /\ Idle /\ UNCHANGED quotaVars
  \/ \E resp \in ProbeResponses : ProbeIndexed(resp) /\ UNCHANGED quotaVars
  \/ Accepted /\ Idle /\ UNCHANGED quotaVars
  \/ \E resp \in RunPages :
       PageFetch(resp) /\ served' = served /\ Requested /\ UNCHANGED quotaVars
  \/ AfterWalk /\ Idle /\ UNCHANGED quotaVars
  \/ AdvanceIndexed /\ UNCHANGED quotaVars
  \/ \E outcome \in UpsertOutcomes :
       Upsert(outcome) /\ Idle /\ UNCHANGED quotaVars

SpecIndex == Init /\ [][NextIndex]_vars

\* the positive members of INITIAL_STAR_RANGE, INITIAL_STAR_RANGE -
\* STAR_RANGE_DECREMENT, ...
ShrinkSteps(v) ==
  {s \in {INITIAL_STAR_RANGE(v) - k * STAR_RANGE_DECREMENT(v) :
            k \in 0..(INITIAL_STAR_RANGE(v) \div STAR_RANGE_DECREMENT(v))} :
     s > 0}

RangeOfStep(s) ==
  [low |-> starCutoff, high |-> Min(STAR_MAX(variant), starCutoff + s - 1)]

FitsAt(s) ==
  /\ RangeOfStep(s) \in DOMAIN index
  /\ Le(index[RangeOfStep(s)], MAX_RESULTS_PER_SEARCH)

\* C13 as stated  Largest fitting step: against a fixed index that answers every probe
\* with a total, the step the shrink loop accepts is the largest s of the
\* shrink sequence whose range [starCutoff, min(STAR_MAX, starCutoff + s - 1)]
\* has a total <= 1000: that range has been answered with such a total, and
\* the range of every larger s with a total above 1000.
LargestFittingStep ==
  pc = "accepted" =>
    /\ starCountRange \in ShrinkSteps(variant)
    /\ FitsAt(starCountRange)
    /\ \A s \in ShrinkSteps(variant) :
         s > starCountRange =>
           /\ RangeOfStep(s) \in DOMAIN index
           /\ Gt(index[RangeOfStep(s)], MAX_RESULTS_PER_SEARCH)

\* C13 as amended  Largest fitting step, if any: against a fixed index that
\* answers every probe with a total, the step the shrink loop accepts is the
\* largest s of the shrink sequence whose range has a total <= 1000 (a total
\* of exactly 1000, and a total of 0, is accepted without further
\* shrinking), whenever there is such an s; the loop accepts a range without
\* one only when the range of every s of the sequence was answered with a
\* total above 1000.
LargestFittingStepIfAny ==
  pc = "accepted" =>
    \/ /\ starCountRange \in ShrinkSteps(variant)
       /\ FitsAt(starCountRange)
       /\ \A s \in ShrinkSteps(variant) :
            s > starCountRange =>
              /\ RangeOfStep(s) \in DOMAIN index
              /\ Gt(index[RangeOfStep(s)], MAX_RESULTS_PER_SEARCH)
    \/ \A s \in ShrinkSteps(variant) :
         /\ RangeOfStep(s) \in DOMAIN index
         /\ Gt(index[RangeOfStep(s)], MAX_RESULTS_PER_SEARCH)

ThirdStepFitsExactly ==
  /\ pc = "accepted"
  /\ nProbes = 3
  /\ data = Num(MAX_RESULTS_PER_SEARCH)
  /\ starCountRange =
       INITIAL_STAR_RANGE(variant) - 2 * STAR_RANGE_DECREMENT(variant)
  /\ starCountParsedRange.high < STAR_MAX(variant)

====
